---------------------------- MODULE Spec2Model ----------------------------
(***************************************************************************)
(* ITU-T P.56 active speech level estimator (src/P56_method_1.py), the     *)
(* level-aware SNR mixer and its batch driver (src/kod/P56_mix.py), and    *)
(* the ported estimator asl_P56 (src/kod/P56_github.py).                   *)
(*                                                                         *)
(* Six specifications share the variables: Spec (active_speech_level),     *)
(* SpecMix and SpecRepeat (mix_at_snr, one call and two calls with the     *)
(* same arguments), SpecMain (main), SpecP56 (asl_P56 with the call of     *)
(* bin_interp it makes) and SpecBin (bin_interp called on its own).        *)
(*                                                                         *)
(* Number representation.                                                  *)
(*  - Samples are integers (sample units).                                 *)
(*  - The envelope p, q, q_tilde is kept as integers over EnvScale(Ns):    *)
(*    the smoothing factor g = exp(-t/time_constant) is one of 0, 1/2, 1   *)
(*    (time constants 1e-3, 1/ln 2, 1e17 at fs = 1 give exactly these      *)
(*    doubles), so every envelope value is a dyadic rational.              *)
(*  - A threshold is a pair [m, e] standing for m / (EnvScale * b^e); the   *)
(*    double the code holds for it, with the roundings of its quotient,    *)
(*    power and product, is CjDouble.                                      *)
(*  - Natural logarithms are fixed-point: Ln values are integers in units  *)
(*    of ln(2)/LnUnit, computed by Lg (a base-2 logarithm).                *)
(***************************************************************************)
EXTENDS Integers, Sequences, FiniteSets

VARIABLES
    pc,             \* position inside active_speech_level
    x, fs, time_constant, hangover, M_dB, b,   \* arguments of the call
    q,              \* envelope (0-indexed, scaled by EnvScale)
    I, i, dq,       \* hangover window length, loop index, deque of <<val, idx>>
    q_tilde,        \* hangover-smoothed envelope (entries 0..i-1 assigned)
    appended, removed,  \* log of the deque: indices pushed / popped so far
    cj, aj,         \* threshold ladder and activity counts
    scan,           \* outcome of the crossing scan
    ret, exc,       \* returned tuple / raised exception of active_speech_level
    mpc,            \* position inside mix_at_snr
    speech, noise, snr_db, speech_info, use_active_speech,  \* arguments
    start,          \* random.randint offset drawn for the noise window
    noise_m,        \* length-matched noise
    mret, mexc,     \* returned tuple / raised exception of mix_at_snr
    first,          \* result of an earlier call with the same arguments
    bpc,            \* position inside main of P56_mix.py
    dirs_found,     \* both input directories exist
    speech_files, noise_files,  \* the .wav files of the two directories
    sidx, nidx, kidx,           \* positions of the three nested loops
    job_count,      \* jobs started
    written,        \* output files written, as <<speech, noise, snr>>
    bexc,           \* exception that left main
    pc56,           \* position inside asl_P56
    x56, fs56, nbits,           \* arguments of asl_P56
    c56, I56,       \* thresholds and hangover length of asl_P56
    a56, hang56,    \* activity and hangover counters, one per threshold
    q56, k56,       \* envelope and sample index of the counting loop
    ret56,          \* returned tuple of asl_P56
    ipc,            \* position inside bin_interp
    upcount, lwcount, upthr, lwthr, Margin, tol,    \* arguments (tol is reassigned)
    iterno,         \* iteration counter of bin_interp
    midcount, midthr,           \* the point being refined
    iret            \* returned pair of bin_interp

aslvars == <<pc, x, fs, time_constant, hangover, M_dB, b, q, I, i, dq,
             q_tilde, appended, removed, cj, aj, scan, ret, exc>>
mixvars == <<mpc, speech, noise, snr_db, speech_info, use_active_speech,
             start, noise_m, mret, mexc, first>>
mainvars == <<bpc, dirs_found, speech_files, noise_files, sidx, nidx, kidx,
              job_count, written, bexc>>
p56vars == <<pc56, x56, fs56, nbits, c56, I56, a56, hang56, q56, k56, ret56>>
binvars == <<ipc, upcount, lwcount, upthr, lwthr, Margin, tol, iterno,
             midcount, midthr, iret>>
vars == <<aslvars, mixvars, mainvars, p56vars, binvars>>
(* what the actions of one function leave alone *)
notasl == <<mixvars, mainvars, p56vars, binvars>>
notmix == <<aslvars, mainvars, p56vars, binvars>>
notmain == <<aslvars, mixvars, p56vars, binvars>>
notp56 == <<aslvars, mixvars, mainvars, binvars>>
notbin == <<aslvars, mixvars, mainvars, p56vars>>

-----------------------------------------------------------------------------
(* Bounds of the model *)
MaxLen == 4
MaxHangover == 3

(* Inputs *)
Samples == {-1, 0, 2}
Signals == UNION {[0..(n-1) -> Samples] : n \in 0..MaxLen}
SampleRates == {0, 1}
TimeConstants == {"1e-3", "1/ln2", "1e17"}
Hangovers == 0..MaxHangover
Margins == {0, 159, 2000}         \* M_dB in tenths of a dB: 0, 15.9, 200
Ratios == {2, 5}                  \* b

Nlevels == 30

-----------------------------------------------------------------------------
(* Generic helpers *)
Abs(v) == IF v < 0 THEN -v ELSE v
Size(f) == Cardinality(DOMAIN f)
Max2(u, v) == IF u >= v THEN u ELSE v
MaxOf(S) == CHOOSE m \in S : \A v \in S : v <= m

RECURSIVE Pow(_, _)
Pow(base, k) == IF k <= 0 THEN 1 ELSE base * Pow(base, k - 1)

RECURSIVE SumSq(_, _)
SumSq(f, n) == IF n = 0 THEN 0 ELSE f[n-1] * f[n-1] + SumSq(f, n - 1)

(* b^k saturated at 2^20: enough to decide qv * b^k >= m for the envelope
   values of the model without leaving 32-bit integers *)
PowCap == 2^20
RECURSIVE SatPowCalc(_, _)
SatPowCalc(base, k) ==
    IF k <= 0 THEN 1
    ELSE IF k >= 20 THEN PowCap
    ELSE LET r == SatPowCalc(base, k - 1)
         IN  IF r >= PowCap \div base THEN PowCap ELSE base * r
(* the saturated powers of the small bases, computed once *)
SatPowTable == [base \in 1..5 |-> [k \in 0..20 |-> SatPowCalc(base, k)]]
SatPow(base, k) ==
    IF base >= 1 /\ base <= 5 /\ k >= 0 /\ k <= 20 THEN SatPowTable[base][k]
    ELSE SatPowCalc(base, k)

(* Fixed-point logarithm: Lg(n) = floor-ish(LnUnit * log2(n)), n >= 1 *)
FracBits == 10
LnUnit == 2^FracBits
MantBits == 14
RECURSIVE FloorLog2(_)
FloorLog2(n) == IF n < 2 THEN 0 ELSE 1 + FloorLog2(n \div 2)
RECURSIVE LgFrac(_, _)
LgFrac(m, k) ==
    IF k = 0 THEN 0
    ELSE LET s == (m * m) \div 2^MantBits
         IN  IF s >= 2^(MantBits + 1)
             THEN 2^(k-1) + LgFrac(s \div 2, k - 1)
             ELSE LgFrac(s, k - 1)
LgCalc(n) ==
    LET e == FloorLog2(n)
    IN  e * LnUnit + LgFrac(n * 2^(MantBits - e), FracBits)
(* the logarithms of the small arguments, computed once *)
LgTable == [n \in 1..(2^(MaxLen + 3)) |-> LgCalc(n)]
Lg(n) == IF n \in DOMAIN LgTable THEN LgTable[n] ELSE LgCalc(n)
(* ln(eps), eps = 1e-300 *)
LnEps == -(300 * Lg(10))

-----------------------------------------------------------------------------
(* active_speech_level: values *)
NegInf == [finite |-> FALSE, cdB |-> 0]
Level(c) == [finite |-> TRUE, cdB |-> c]
Frac(n, d) == [kind |-> "frac", num |-> n, den |-> d]
LnVal(v) == [kind |-> "ln", v |-> v]
Zero == Frac(0, 1)
NoRet == [act_level_db |-> NegInf, activity |-> Zero, info |-> [none |-> TRUE]]
NoScan == [found |-> FALSE, j |-> -1, stop |-> "none", d |-> 0, d_prev |-> 0,
           Aln_prev |-> 0, Alno |-> 0, seen |-> {}]

(* Ex = np.mean(x**2), as the rational sumsq / Ns *)
Ex(sig) == Frac(SumSq(sig, Size(sig)), Size(sig))

(* g = np.exp(-t / time_constant), numerator over Gden, for fs = 1 *)
Gden == 2
G(tc) == CASE tc = "1e-3"  -> 0
           [] tc = "1/ln2" -> 1
           [] tc = "1e17"  -> Gden
EnvScale(Ns) == Gden^(Ns + 1)

(* Double exponential smoothing, lines 49-61: the pair <<p, q>> after sample k *)
RECURSIVE Smooth(_, _, _)
Smooth(sig, g, k) ==
    IF k < 0 THEN [p |-> 0, q |-> 0]
    ELSE LET prev == Smooth(sig, g, k - 1)
             one_minus_g == Gden - g
             v == Abs(sig[k]) * EnvScale(Size(sig))
             p_curr == (g * prev.p + one_minus_g * v) \div Gden
             q_curr == (g * prev.q + one_minus_g * p_curr) \div Gden
         IN  [p |-> p_curr, q |-> q_curr]
Envelope(sig, g) == [k \in DOMAIN sig |-> Smooth(sig, g, k).q]

(* I = int(np.ceil(hangover / t)), t = 1.0 / fs; hangover in whole seconds *)
HangoverLen(h, rate) == h * rate

-----------------------------------------------------------------------------
(* Hangover: moving maximum with a deque of <<val, idx>>, lines 70-81 *)
Last(d) == d[Len(d)]
Front(d) == SubSeq(d, 1, Len(d) - 1)

(* mutant: entries equal to the new value are kept, dq[-1][0] < val *)
RECURSIVE PopRightStrict(_, _)
PopRightStrict(d, val) ==
    IF d # <<>> /\ Last(d)[1] < val THEN PopRightStrict(Front(d), val) ELSE d
(* while dq and dq[-1][0] <= val: dq.pop() *)
RECURSIVE PopRight(_, _)
PopRight(d, val) ==
    IF d # <<>> /\ Last(d)[1] <= val THEN PopRight(Front(d), val) ELSE d

(* while dq and dq[0][1] < i - I + 1: dq.popleft() *)
RECURSIVE PopLeft(_, _)
PopLeft(d, lim) ==
    IF d # <<>> /\ Head(d)[2] < lim THEN PopLeft(Tail(d), lim) ELSE d

(* mutant: window boundary off by one (i - I instead of i - I + 1) *)
WindowLimitOffByOne(k, win) == k - win
WindowLimit(k, win) == k - win + 1

(* one pass of the for-loop body for sample k: the deque afterwards *)
DequeStep(d, val, k, win) ==
    PopLeft(Append(PopRight(d, val), <<val, k>>), WindowLimit(k, win))

(* mutant: the deque is not kept between samples but cleared and refilled
   from the window at every sample *)
LoopBodyRebuild(d, val, k, win) ==
    LET lo == Max2(0, WindowLimit(k, win))
    IN  [dq |-> DequeStep(d, val, k, win),
         appended |-> [n \in 1..(k - lo + 1) |-> lo + n - 1],
         removed |-> [n \in 1..Len(d) |-> <<d[n][2], "clear">>]]
(* one pass of the for-loop body with its deque operations: the deque
   afterwards, the indices pushed by dq.append and the indices taken out by
   dq.pop() and dq.popleft(), in order *)
LoopBody(d, val, k, win) ==
    LET kept == PopRight(d, val)
        pushed == Append(kept, <<val, k>>)
        final == DequeStep(d, val, k, win)
    IN  [dq |-> final,
         appended |-> <<k>>,
         removed |-> [n \in 1..(Len(d) - Len(kept)) |->
                         <<d[Len(d) + 1 - n][2], "pop">>]
                     \o [n \in 1..(Len(pushed) - Len(final)) |->
                         <<pushed[n][2], "popleft">>]]

-----------------------------------------------------------------------------
(* Doubles, lines 91-92: c_min = c_max / (b ** (Nlevels - 1)) and
   cj = c_min * (b ** np.arange(Nlevels)) are computed in binary64, every
   quotient, product and power rounded to 53 bits, to nearest, ties to even.
   A natural number of up to NLimbs * LimbBits bits is a tuple of limbs, the
   least significant first; a double is a mantissa and a binary exponent.
   Operands are bound before use so that each is evaluated once. *)
LimbBits == 15
LimbBase == 2^LimbBits
NLimbs == 9
MantBits53 == 53                 \* bits of a binary64 mantissa
Limb(u, at) == IF at >= 1 /\ at <= NLimbs THEN u[at] ELSE 0
(* the natural number n < 2^31 *)
BigOf(n) == <<n % LimbBase, (n \div LimbBase) % LimbBase, n \div (LimbBase * LimbBase),
              0, 0, 0, 0, 0, 0>>
(* u * k for a factor k < LimbBase *)
RECURSIVE MulFrom(_, _, _, _)
MulFrom(u, k, at, carry) ==
    IF at > NLimbs THEN <<>>
    ELSE CHOOSE r \in {<<t % LimbBase>> \o MulFrom(u, k, at + 1, t \div LimbBase) :
                          t \in {u[at] * k + carry}} : TRUE
BigScale(u, k) == CHOOSE r \in {MulFrom(a, j, 1, 0) : a \in {u}, j \in {k}} : TRUE
(* u + v *)
RECURSIVE AddFrom(_, _, _, _)
AddFrom(u, v, at, carry) ==
    IF at > NLimbs THEN <<>>
    ELSE CHOOSE r \in {<<t % LimbBase>> \o AddFrom(u, v, at + 1, t \div LimbBase) :
                          t \in {u[at] + v[at] + carry}} : TRUE
BigAdd(u, v) == CHOOSE r \in {AddFrom(a, c, 1, 0) : a \in {u}, c \in {v}} : TRUE
(* u - v for u >= v *)
RECURSIVE SubFrom(_, _, _, _)
SubFrom(u, v, at, borrow) ==
    IF at > NLimbs THEN <<>>
    ELSE CHOOSE r \in {<<t % LimbBase>> \o SubFrom(u, v, at + 1, IF t < 0 THEN 1 ELSE 0) :
                          t \in {u[at] - v[at] - borrow}} : TRUE
BigSub(u, v) == CHOOSE r \in {SubFrom(a, c, 1, 0) : a \in {u}, c \in {v}} : TRUE
(* u < v *)
RECURSIVE LessFrom(_, _, _)
LessFrom(u, v, at) ==
    IF at = 0 THEN FALSE
    ELSE IF u[at] # v[at] THEN u[at] < v[at]
    ELSE LessFrom(u, v, at - 1)
BigLess(u, v) == \E a \in {u}, c \in {v} : LessFrom(a, c, NLimbs)
(* u * LimbBase^s *)
BigShift(u, s) ==
    CHOOSE r \in {<<Limb(a, 1 - j), Limb(a, 2 - j), Limb(a, 3 - j), Limb(a, 4 - j),
                    Limb(a, 5 - j), Limb(a, 6 - j), Limb(a, 7 - j), Limb(a, 8 - j),
                    Limb(a, 9 - j)>> : a \in {u}, j \in {s}} : TRUE
(* u * 2^k *)
Doubled(u, k) ==
    CHOOSE r \in {BigShift(BigScale(u, 2^(j % LimbBits)), j \div LimbBits) : j \in {k}} : TRUE
(* u * v *)
RECURSIVE MulAcc(_, _, _)
MulAcc(u, v, at) ==
    IF at > NLimbs THEN BigOf(0)
    ELSE IF u[at] = 0 THEN MulAcc(u, v, at + 1)
    ELSE BigAdd(BigShift(BigScale(v, u[at]), at - 1), MulAcc(u, v, at + 1))
BigMul(u, v) == CHOOSE r \in {MulAcc(a, c, 1) : a \in {u}, c \in {v}} : TRUE
(* base^k, exact *)
RECURSIVE BigPow(_, _)
BigPow(base, k) == IF k = 0 THEN BigOf(1) ELSE BigScale(BigPow(base, k - 1), base)
(* the number of bits of u > 0 *)
TopLimb(u) == CHOOSE at \in 1..NLimbs : u[at] # 0 /\ \A j \in (at + 1)..NLimbs : u[j] = 0
BitLenAt(u, t) == LimbBits * (t - 1) + FloorLog2(u[t]) + 1
BitLen(u) == CHOOSE r \in {BitLenAt(a, TopLimb(a)) : a \in {u}} : TRUE

(* the double mant * 2^ex *)
Double(mant, ex) == [mant |-> mant, ex |-> ex]
(* Long division of n by d, a limb of the quotient at a time. The top limb
   of d is at t and holds LimbBits bits, so that the quotient of the leading
   limbs is at most 2 above the digit. *)
RECURSIVE DigitIn(_, _, _, _)
DigitIn(r, d, lo, hi) ==
    IF hi - 1 <= lo THEN lo
    ELSE IF BigLess(r, BigScale(d, hi - 1)) THEN DigitIn(r, d, lo, hi - 1)
    ELSE hi - 1
DigitNear(r, d, qh) == DigitIn(r, d, IF qh > 2 THEN qh - 2 ELSE 0, qh + 1)
DigitOf(r, d, t) ==
    CHOOSE g \in {DigitNear(r, d, IF qh >= LimbBase THEN LimbBase - 1 ELSE qh) :
                     qh \in {(Limb(r, t + 1) * LimbBase + r[t]) \div d[t]}} : TRUE
DivDigit(r, quo, d, t) ==
    CHOOSE res \in {[quo |-> [BigShift(quo, 1) EXCEPT ![1] = g],
                     r   |-> BigSub(r, BigScale(d, g))] : g \in {DigitOf(r, d, t)}} : TRUE
DivStep(up, limb, d, t) ==
    CHOOSE res \in {DivDigit(r, up.quo, d, t) :
                       r \in {[BigShift(up.r, 1) EXCEPT ![1] = limb]}} : TRUE
RECURSIVE LongDiv(_, _, _, _)
LongDiv(n, d, t, at) ==
    IF at > NLimbs THEN [quo |-> BigOf(0), r |-> BigOf(0)]
    ELSE CHOOSE res \in {DivStep(up, n[at], d, t) : up \in {LongDiv(n, d, t, at + 1)}} : TRUE
(* round to nearest, ties to even: the quotient t.quo with remainder t.r *)
RoundHalfEven(t, d) ==
    IF BigLess(d, BigScale(t.r, 2))
          \/ (BigScale(t.r, 2) = d /\ t.quo[1] % 2 = 1)
    THEN BigAdd(t.quo, BigOf(1))
    ELSE t.quo
RoundedQuotient(nn, dd) ==
    CHOOSE fl \in {RoundHalfEven(t, dd) : t \in {LongDiv(nn, dd, TopLimb(dd), 1)}} : TRUE
(* The double nearest n / d: n * 2^s / d has a quotient of MantBits53 bits;
   pad fills the top limb of the divisor. *)
FlDivAt(n, d, s, pad) ==
    CHOOSE fl \in {Double(RoundedQuotient(nn, dd), -s) :
                     nn \in {Doubled(n, (IF s >= 0 THEN s ELSE 0) + pad)},
                     dd \in {Doubled(d, (IF s >= 0 THEN 0 ELSE -s) + pad)}} : TRUE
FlDivPad(n, d, s) ==
    FlDivAt(n, d, s, (-(BitLen(d) + (IF s >= 0 THEN 0 ELSE -s))) % LimbBits)
QuotientShort(n, d, s) ==
    BigLess(Doubled(n, IF s >= 0 THEN s ELSE 0),
            Doubled(d, MantBits53 - 1 + (IF s >= 0 THEN 0 ELSE -s)))
FlDivFrom(n, d, s) ==
    CHOOSE fl \in {FlDivPad(n, d, k) : k \in {IF QuotientShort(n, d, s) THEN s + 1 ELSE s}} : TRUE
FlDivRounded(n, d) ==
    CHOOSE fl \in {FlDivFrom(n, d, s) :
                     s \in {(MantBits53 - 1) - (BitLen(n) - BitLen(d))}} : TRUE
(* a power of two divides without rounding what fits the mantissa *)
IsPowerOfTwo(u) == u = Doubled(BigOf(1), BitLen(u) - 1)
FlDiv(n, d) ==
    CHOOSE fl \in {IF IsPowerOfTwo(c) /\ BitLen(a) <= MantBits53
                    THEN Double(a, 1 - BitLen(c))
                    ELSE FlDivRounded(a, c) : a \in {n}, c \in {d}} : TRUE
(* b ** k: the double nearest base^k *)
FlPowCalc(base, k) == FlDiv(BigPow(base, k), BigOf(1))
(* the powers of the ratios, computed once *)
FlPowTable == [base \in Ratios |-> [k \in 0..(Nlevels - 1) |-> FlPowCalc(base, k)]]
FlPow(base, k) == FlPowTable[base][k]
(* c_min = c_max / (b ** (Nlevels - 1)), c_max = m envelope units *)
CMinDouble(m, base) ==
    CHOOSE r \in {Double(c.mant, c.ex - p.ex) :
                    c \in {FlDiv(BigOf(m), FlPow(base, Nlevels - 1).mant)},
                    p \in {FlPow(base, Nlevels - 1)}} : TRUE
(* cj[k] = c_min * (b ** k) *)
CjDouble(m, base, k) ==
    CHOOSE fl \in {CHOOSE s \in {Double(r.mant, r.ex + c.ex + p.ex) :
                                   r \in {FlDiv(BigMul(c.mant, p.mant), BigOf(1))}} : TRUE :
                     c \in {CMinDouble(m, base)}, p \in {FlPow(base, k)}} : TRUE
(* qv < d for qv envelope units and a double d *)
LessDouble(qv, d) ==
    IF d.ex <= 0 THEN BigLess(Doubled(BigOf(qv), -d.ex), d.mant)
    ELSE BigLess(BigOf(qv), Doubled(d.mant, d.ex))
(* cj[Nlevels - 1] > c_max, for the values of c_max the envelope can take,
   computed once *)
TopAboveTable ==
    [base \in Ratios |-> [m \in 1..(2^(MaxLen + 2)) |->
        LessDouble(m, CjDouble(m, base, Nlevels - 1))]]

-----------------------------------------------------------------------------
(* Threshold ladder, lines 85-92 *)
Thr(m, e) == [m |-> m, e |-> e]

(* mutant: c_min = c_max / (b ** Nlevels) *)
CMinOneMore(c_max) == Thr(c_max, Nlevels)
(* c_min = c_max / (b ** (Nlevels - 1)) *)
CMin(c_max) == Thr(c_max, Nlevels - 1)
(* mutant: descending ladder, cj = c_max / (b ** np.arange(Nlevels)) *)
LadderDescending(c_max) ==
    [j \in 0..(Nlevels - 1) |-> Thr(c_max, j)]
(* cj = c_min * (b ** np.arange(Nlevels)): entry j is the double
   CjDouble(c_max, b, j), named by the pair of c_max and the power of b that
   divides it; ThrAbove compares the double itself *)
Ladder(c_max) ==
    [j \in 0..(Nlevels - 1) |-> Thr(CMin(c_max).m, CMin(c_max).e - j)]

(* qv < c for the double c that the pair names, where qv = c.m / base^(c.e) *)
ThrAbove(qv, c, base) ==
    IF c.e = 0 /\ base \in DOMAIN TopAboveTable /\ c.m \in DOMAIN TopAboveTable[base]
    THEN TopAboveTable[base][c.m]
    ELSE LessDouble(qv, CjDouble(c.m, base, Nlevels - 1 - c.e))
(* q_tilde >= c, line 96, for an envelope value qv and a threshold c. The
   roundings of c move it by less than any two envelope values differ, so
   they decide the comparison only where qv = c.m / base^(c.e). *)
GeqThr(qv, c, base) ==
    IF c.e >= 0
    THEN IF SatPow(base, c.e) < PowCap /\ qv * SatPow(base, c.e) = c.m
         THEN ~ThrAbove(qv, c, base)
         ELSE qv * SatPow(base, c.e) >= c.m
    ELSE qv >= c.m * SatPow(base, -c.e)

(* aj = [(q_tilde >= c).sum() for c in cj], lines 96-97 *)
Count(qt, c, base) == Cardinality({k \in DOMAIN qt : GeqThr(qt[k], c, base)})
Activity(qt, c, base) == [j \in DOMAIN c |-> Count(qt, c[j], base)]

-----------------------------------------------------------------------------
(* Crossing search in the log domain, lines 102-147 *)
LnFrac(r) == Lg(r.num) - Lg(r.den)
(* a_nonzero = np.maximum(a_frac, eps) *)
LnANonzero(cnt, Ns) == IF cnt > 0 THEN Lg(cnt) - Lg(Ns) ELSE LnEps
(* Alnj = np.log(Ex / a_nonzero) *)
Alnj(ex, cnt, Ns) == LnFrac(ex) - LnANonzero(cnt, Ns)
(* Clnj = 2.0 * np.log(np.maximum(cj, eps)) *)
Clnj(c, base, Ns) == 2 * (Lg(c.m) - Lg(EnvScale(Ns)) - c.e * Lg(base))
(* Mln = np.log(10 ** (M_dB / 10.0)), M_dB in tenths of a dB *)
Mln(m10) == (m10 * Lg(10)) \div 100
(* dAC = Alnj - Clnj *)
DAC(ex, cnt, c, base, Ns) == Alnj(ex, cnt, Ns) - Clnj(c, base, Ns)

(* mutant: strict margin test *)
CrossesStrict(d, mln) == d < mln
(* The margin test of lines 124 and 133 *)
Crosses(d, mln) == d <= mln

(* alpha = (Mln - d_prev) / (d - d_prev + 1e-300);
   Alno = Aln_prev + alpha * (Alnj[j] - Aln_prev) *)
Interpolate(mln, d_prev, d, Aln_prev, Aln_j) ==
    Aln_prev + ((mln - d_prev) * (Aln_j - Aln_prev)) \div (d - d_prev)

(* The scan loop of lines 119-147 from index j on; "seen" collects the indices
   whose loop body ran to the end (prev_d, prev_Aln updated from them). *)
RECURSIVE ScanFrom(_, _, _, _, _, _, _, _)
ScanFrom(j, prev_d, prev_Aln, seen, a, A, d, mln) ==
    IF j >= Size(d)
    THEN [found |-> FALSE, j |-> j, stop |-> "end", d |-> 0, d_prev |-> prev_d,
          Aln_prev |-> prev_Aln, Alno |-> 0, seen |-> seen]
    ELSE IF a[j] = 0
    THEN [found |-> FALSE, j |-> j, stop |-> "zero", d |-> 0, d_prev |-> prev_d,
          Aln_prev |-> prev_Aln, Alno |-> 0, seen |-> seen]
    ELSE IF Crosses(d[j], mln)
    THEN [found |-> TRUE, j |-> j, stop |-> "crossing", d |-> d[j],
          d_prev |-> prev_d, Aln_prev |-> prev_Aln,
          Alno |-> IF j = 0 THEN A[j]
                   ELSE Interpolate(mln, prev_d, d[j], prev_Aln, A[j]),
          seen |-> seen]
    ELSE ScanFrom(j + 1, d[j], A[j], seen \cup {j}, a, A, d, mln)

(* for j in range(len(dAC)): ... with found = False, prev_d = prev_Aln = None *)
Scan(a, A, d, mln) == ScanFrom(0, 0, 0, {}, a, A, d, mln)

-----------------------------------------------------------------------------
(* Results, lines 126-171 *)
Ns == Size(x)
AlnjOf(j) == Alnj(Ex(x), aj[j], Ns)
DACOf(j) == DAC(Ex(x), aj[j], cj[j], b, Ns)
AlnjAll == [j \in DOMAIN cj |-> AlnjOf(j)]
dAC == [j \in DOMAIN cj |-> DACOf(j)]

(* ln(ActLev), ActLev = np.exp(Alno / 2.0) *)
LnActLev(s) == s.Alno \div 2
(* lo: cj[0] in the first interval, else ActLev / sqrt(10 ** (M_dB / 10)) *)
Lo(s) == IF s.j = 0 THEN [kind |-> "thr", c |-> cj[0]]
         ELSE LnVal(LnActLev(s) - Mln(M_dB) \div 2)
(* The doubles of lines 139-143 (exp(Alno / 2), the division by sqrt(m), the
   square, the product with m) return Ex / exp(Alno) up to a rounding error
   in the last place.  Its sign depends on the rounding of exp, sqrt and **
   on the platform and not on the value: it is one of Roundings, and a value
   is kept as its logarithm v with the sign e of that error. *)
Roundings == {-1, 0, 1}
LnRounded(v, e) == [kind |-> "ln", v |-> v, ulp |-> e]
(* mutant: activity always recomputed as Ex / (m * lo ** 2) *)
ActivityAlwaysRecomputed(s, e) ==
    LnRounded(LnFrac(Ex(x)) - (Mln(M_dB) + (s.Alno - Mln(M_dB))), e)
(* activity: a_frac[0] in the first interval, else Ex / (m * lo ** 2) with
   ln(lo ** 2) = Alno - Mln *)
ActivityOf(s, e) ==
    IF s.j = 0 THEN Frac(aj[0], Ns)
    ELSE LnRounded(LnFrac(Ex(x)) - (Mln(M_dB) + (s.Alno - Mln(M_dB))), e)
(* act_level_db = 20 * log10(ActLev), in hundredths of a dB *)
ActLevelDb(s) == Level((LnActLev(s) * 602) \div LnUnit)
(* q_tilde >= lo *)
GeqLo(qv, lo) == IF lo.kind = "thr" THEN GeqThr(qv, lo.c, b)
                 ELSE qv > 0 /\ Lg(qv) - Lg(EnvScale(Ns)) >= lo.v

ZeroEnergy == [act_level_db |-> NegInf, activity |-> Zero,
               info |-> [reason |-> "zero-energy"]]
NoEnvelopeEnergy == [act_level_db |-> NegInf, activity |-> Zero,
                     info |-> [reason |-> "no-envelope-energy"]]
(* mutant: the missing crossing falls through to the normal return with
   ActLev = lo = activity = 0.0 *)
NoCrossingFallThrough ==
    [act_level_db |-> Level(-600000), activity |-> Zero,
     info |-> [Ex |-> Ex(x), M_dB |-> M_dB, dAC |-> dAC]]
NoCrossing == [act_level_db |-> NegInf, activity |-> Zero,
               info |-> [reason |-> "no_crossing", dAC |-> dAC]]
Success(s, e) ==
    [act_level_db |-> ActLevelDb(s),
     activity |-> ActivityOf(s, e),
     info |-> [Ex |-> Ex(x),
               ActLev_sample_units |-> LnVal(LnActLev(s)),
               lo |-> Lo(s),
               M_dB |-> M_dB,
               thresholds |-> cj,
               activity_counts |-> aj,
               activity_fraction |-> [j \in DOMAIN aj |-> Frac(aj[j], Ns)],
               dAC |-> dAC,
               q_tilde |-> q_tilde,
               active_mask |-> [k \in DOMAIN q_tilde |-> GeqLo(q_tilde[k], Lo(s))]]]

-----------------------------------------------------------------------------
(* mix_at_snr (src/kod/P56_mix.py): values.  The gain alpha and the mixed
   samples are fixed-point numbers in units of 1/AlphaUnit. *)
MaxSpeechLen == 3
MaxNoiseLen == 3
SpeechSamples == {0, 1}
NoiseSamples == {-1, 0, 1}
SpeechSignals == UNION {[0..(n-1) -> SpeechSamples] : n \in 0..MaxSpeechLen}
NoiseSignals == UNION {[0..(n-1) -> NoiseSamples] : n \in 0..MaxNoiseLen}
SnrValues == {-10, 0, 10}
None == [is_none |-> TRUE, dict |-> [none |-> TRUE]]
Dict(d) == [is_none |-> FALSE, dict |-> d]
SpeechInfos == {None,
                Dict([reason |-> "zero-energy"]),
                Dict([reason |-> "no_crossing", dAC |-> <<>>]),
                Dict([ActLev_sample_units |-> 1]),
                Dict([ActLev_sample_units |-> 2])}
NoMix == [mixed |-> <<>>, alpha |-> 0]
NoFirst == [done |-> FALSE, ret |-> NoMix]
AlphaUnit == 2^10

CeilDiv(n, d) == (n + d - 1) \div d
(* mutant: repeats = N // len(noise) *)
RepeatsFloor(n, len) == n \div len
(* repeats = int(np.ceil(N / len(noise))) *)
Repeats(n, len) == CeilDiv(n, len)
(* np.tile(a, repeats) *)
Tile(a, repeats) == [k \in 0..(repeats * Size(a) - 1) |-> a[k % Size(a)]]
(* a[lo:hi] *)
Slice(a, lo, hi) ==
    LET top == IF hi <= Size(a) THEN hi ELSE Size(a)
    IN  [k \in 0..(top - lo - 1) |-> a[lo + k]]
(* random.randint(lo, hi): both ends included *)
RandInt(lo, hi) == lo..hi

(* np.mean(a ** 2) of a non-empty array *)
MeanSq(a) == Frac(SumSq(a, Size(a)), Size(a))
(* mutant: the use_active_speech flag is not consulted *)
HasActiveLevelIgnoresFlag(use, info) ==
    ~info.is_none /\ "ActLev_sample_units" \in DOMAIN info.dict
(* line 21: the diagnostics carry an active level *)
HasActiveLevel(use, info) ==
    use /\ ~info.is_none /\ "ActLev_sample_units" \in DOMAIN info.dict
(* lines 21-24 *)
Ps(sp, use, info) ==
    IF HasActiveLevel(use, info)
    THEN Frac(info.dict.ActLev_sample_units * info.dict.ActLev_sample_units, 1)
    ELSE MeanSq(sp)
RECURSIVE Sum(_, _)
Sum(f, n) == IF n = 0 THEN 0 ELSE f[n-1] + Sum(f, n - 1)
(* mutant: the mean of the samples instead of the mean of their squares *)
Pn0Mean(nm) == Frac(Sum(nm, Size(nm)), Size(nm))
(* line 27 *)
Pn0(nm) == MeanSq(nm)
(* factor = 10 ** (snr_db / 10.0), snr_db a multiple of 10 *)
Factor(snr) == IF snr >= 0 THEN Frac(Pow(10, snr \div 10), 1)
               ELSE Frac(1, Pow(10, (-snr) \div 10))
FracDiv(u, v) == Frac(u.num * v.den, u.den * v.num)
(* mutant: Pn_desired = Ps * factor *)
PnDesiredTimes(ps, factor) == Frac(ps.num * factor.num, ps.den * factor.den)
(* Pn_desired = Ps / factor *)
PnDesired(ps, factor) == FracDiv(ps, factor)
(* floor of the square root *)
RECURSIVE Isqrt(_)
Isqrt(n) ==
    IF n < 2 THEN n
    ELSE LET r == 2 * Isqrt(n \div 4)
         IN  IF (r + 1) * (r + 1) <= n THEN r + 1 ELSE r
(* np.sqrt of a rational, in units of 1/AlphaUnit *)
SqrtFrac(r) == Isqrt((r.num * AlphaUnit * AlphaUnit) \div r.den)
(* alpha = np.sqrt(Pn_desired / Pn0) *)
Alpha(ps, pn0, factor) == SqrtFrac(FracDiv(PnDesired(ps, factor), pn0))
(* mixed = speech + (alpha * noise) *)
Mixed(sp, nm, alpha) == [k \in DOMAIN sp |-> sp[k] * AlphaUnit + alpha * nm[k]]
(* max_abs = np.max(np.abs(mixed)) *)
MaxAbs(m) == MaxOf({Abs(m[k]) : k \in DOMAIN m})
(* u / v rounded towards zero *)
DivTrunc(u, v) == IF u >= 0 THEN u \div v ELSE -((-u) \div v)
(* mutant: hard clipping to [-1, 1] instead of the rescale *)
NormalisedClip(m) ==
    [k \in DOMAIN m |-> IF m[k] > AlphaUnit THEN AlphaUnit
                        ELSE IF m[k] < -AlphaUnit THEN -AlphaUnit ELSE m[k]]
(* lines 40-42: if max_abs > 1.0: mixed = mixed / max_abs *)
Normalised(m) ==
    IF MaxAbs(m) > AlphaUnit
    THEN [k \in DOMAIN m |-> DivTrunc(m[k] * AlphaUnit, MaxAbs(m))]
    ELSE m

-----------------------------------------------------------------------------
(* active_speech_level as a state machine *)
MixIdle ==
    /\ mpc = "idle" /\ speech = <<>> /\ noise = <<>> /\ snr_db = 0
    /\ speech_info = None /\ use_active_speech = TRUE
    /\ start = 0 /\ noise_m = <<>> /\ mret = NoMix /\ mexc = "none"
    /\ first = NoFirst

AslIdle ==
    /\ pc = "idle" /\ x = <<>> /\ fs = 1 /\ time_constant = "1e-3"
    /\ hangover = 0 /\ M_dB = 159 /\ b = 2
    /\ q = <<>> /\ I = 0 /\ i = 0 /\ dq = <<>> /\ q_tilde = <<>>
    /\ appended = <<>> /\ removed = <<>>
    /\ cj = <<>> /\ aj = <<>> /\ scan = NoScan /\ ret = NoRet /\ exc = "none"

MainIdle ==
    /\ bpc = "idle" /\ dirs_found = TRUE
    /\ speech_files = <<>> /\ noise_files = <<>>
    /\ sidx = 1 /\ nidx = 1 /\ kidx = 1
    /\ job_count = 0 /\ written = {} /\ bexc = "none"

NoRet56 == [returned |-> FALSE, asl_ms |-> NegInf, asl |-> Zero, c0 |-> Zero]
P56Idle ==
    /\ pc56 = "idle" /\ x56 = <<>> /\ fs56 = 1 /\ nbits = 2
    /\ c56 = <<>> /\ I56 = 0 /\ a56 = <<>> /\ hang56 = <<>>
    /\ q56 = <<>> /\ k56 = 0 /\ ret56 = NoRet56

NoPair == [returned |-> FALSE, asl_ms_log |-> 0, cc |-> 0]
BinIdle ==
    /\ ipc = "idle" /\ upcount = 0 /\ lwcount = 0 /\ upthr = 0 /\ lwthr = 0
    /\ Margin = 0 /\ tol = 0 /\ iterno = 0
    /\ midcount = 0 /\ midthr = 0 /\ iret = NoPair

Init == AslIdle /\ MixIdle /\ MainIdle /\ P56Idle /\ BinIdle

(* A caller invokes active_speech_level(x, fs, time_constant, hangover, M_dB, b) *)
Call ==
    /\ pc = "idle"
    /\ x' \in Signals
    /\ fs' \in SampleRates
    /\ time_constant' \in TimeConstants
    /\ hangover' \in Hangovers
    /\ M_dB' \in Margins
    /\ b' \in Ratios
    /\ pc' = "check"
    /\ UNCHANGED <<q, I, i, dq, q_tilde, cj, aj, scan, ret, exc>>
    /\ UNCHANGED <<appended, removed>>
    /\ UNCHANGED notasl

(* mutant: no emptiness check, the empty signal is reported as silence *)
EmptyAsSilence ==
    /\ pc = "check"
    /\ Ns = 0
    /\ ret' = ZeroEnergy
    /\ pc' = "done"
    /\ UNCHANGED <<x, fs, time_constant, hangover, M_dB, b, q, I, i, dq,
                   q_tilde, cj, aj, scan, exc>>
    /\ UNCHANGED <<appended, removed>>
    /\ UNCHANGED notasl

(* lines 35-38: empty input *)
RaiseEmpty ==
    /\ pc = "check"
    /\ Ns = 0
    /\ exc' = "ValueError: Empty signal"
    /\ pc' = "raised"
    /\ UNCHANGED <<x, fs, time_constant, hangover, M_dB, b, q, I, i, dq,
                   q_tilde, cj, aj, scan, ret>>
    /\ UNCHANGED <<appended, removed>>
    /\ UNCHANGED notasl

(* mutant: the energy test placed after t = 1.0 / fs *)
ZeroEnergyAfterRate ==
    /\ pc = "check"
    /\ Ns # 0
    /\ Ex(x).num = 0
    /\ IF fs = 0
       THEN exc' = "ZeroDivisionError" /\ pc' = "raised" /\ ret' = ret
       ELSE ret' = ZeroEnergy /\ pc' = "done" /\ exc' = exc
    /\ UNCHANGED <<x, fs, time_constant, hangover, M_dB, b, q, I, i, dq,
                   q_tilde, cj, aj, scan>>
    /\ UNCHANGED <<appended, removed>>
    /\ UNCHANGED notasl

(* lines 41-43: zero mean-square energy *)
ReturnZeroEnergy ==
    /\ pc = "check"
    /\ Ns # 0
    /\ Ex(x).num = 0
    /\ ret' = ZeroEnergy
    /\ pc' = "done"
    /\ UNCHANGED <<x, fs, time_constant, hangover, M_dB, b, q, I, i, dq,
                   q_tilde, cj, aj, scan, exc>>
    /\ UNCHANGED <<appended, removed>>
    /\ UNCHANGED notasl

(* line 47: t = 1.0 / fs with fs = 0 *)
RaiseZeroRate ==
    /\ pc = "check"
    /\ Ns # 0
    /\ Ex(x).num # 0
    /\ fs = 0
    /\ exc' = "ZeroDivisionError"
    /\ pc' = "raised"
    /\ UNCHANGED <<x, fs, time_constant, hangover, M_dB, b, q, I, i, dq,
                   q_tilde, cj, aj, scan, ret>>
    /\ UNCHANGED <<appended, removed>>
    /\ UNCHANGED notasl

(* lines 47-65: envelope and hangover length *)
ComputeEnvelope ==
    /\ pc = "check"
    /\ Ns # 0
    /\ Ex(x).num # 0
    /\ fs # 0
    /\ q' = Envelope(x, G(time_constant))
    /\ I' = HangoverLen(hangover, fs)
    /\ pc' = "hangover"
    /\ i' = 0
    /\ dq' = <<>>
    /\ q_tilde' = <<>>
    /\ appended' = <<>> /\ removed' = <<>>
    /\ UNCHANGED <<x, fs, time_constant, hangover, M_dB, b, cj, aj, scan,
                   ret, exc>>
    /\ UNCHANGED notasl

(* lines 66-67: no hangover, q_tilde = q.copy() *)
HangoverCopy ==
    /\ pc = "hangover"
    /\ I < 1
    /\ q_tilde' = q
    /\ i' = Ns
    /\ pc' = "ladder"
    /\ UNCHANGED <<x, fs, time_constant, hangover, M_dB, b, q, I, dq, cj, aj,
                   scan, ret, exc>>
    /\ UNCHANGED <<appended, removed>>
    /\ UNCHANGED notasl

(* lines 73-81: one iteration of the moving-maximum loop *)
HangoverStep ==
    /\ pc = "hangover"
    /\ I >= 1
    /\ i < Ns
    /\ LET body == LoopBody(dq, q[i], i, I)
           d == body.dq
       IN  /\ dq' = d
           /\ q_tilde' = [k \in 0..i |-> IF k = i THEN Head(d)[1] ELSE q_tilde[k]]
           /\ appended' = appended \o body.appended
           /\ removed' = removed \o body.removed
    /\ i' = i + 1
    /\ pc' = IF i + 1 = Ns THEN "ladder" ELSE "hangover"
    /\ UNCHANGED <<x, fs, time_constant, hangover, M_dB, b, q, I, cj, aj,
                   scan, ret, exc>>
    /\ UNCHANGED notasl

qmax == MaxOf({q_tilde[k] : k \in DOMAIN q_tilde})

(* lines 85-87: no envelope energy *)
ReturnNoEnvelope ==
    /\ pc = "ladder"
    /\ qmax <= 0
    /\ ret' = NoEnvelopeEnergy
    /\ pc' = "done"
    /\ UNCHANGED <<x, fs, time_constant, hangover, M_dB, b, q, I, i, dq,
                   q_tilde, cj, aj, scan, exc>>
    /\ UNCHANGED <<appended, removed>>
    /\ UNCHANGED notasl

(* lines 89-97: thresholds and activity counts *)
BuildLadder ==
    /\ pc = "ladder"
    /\ qmax > 0
    /\ cj' = Ladder(qmax)
    /\ aj' = Activity(q_tilde, cj', b)
    /\ pc' = "scan"
    /\ UNCHANGED <<x, fs, time_constant, hangover, M_dB, b, q, I, i, dq,
                   q_tilde, scan, ret, exc>>
    /\ UNCHANGED <<appended, removed>>
    /\ UNCHANGED notasl

(* lines 102-171: crossing scan and return *)
ScanAndReturn ==
    /\ pc = "scan"
    /\ scan' = Scan(aj, AlnjAll, dAC, Mln(M_dB))
    /\ \E e \in (IF scan'.found /\ scan'.j > 0 THEN Roundings ELSE {0}) :
          ret' = IF scan'.found THEN Success(scan', e) ELSE NoCrossing
    /\ pc' = "done"
    /\ UNCHANGED <<x, fs, time_constant, hangover, M_dB, b, q, I, i, dq,
                   q_tilde, cj, aj, exc>>
    /\ UNCHANGED <<appended, removed>>
    /\ UNCHANGED notasl

Next ==
    \/ Call
    \/ RaiseEmpty
    \/ ReturnZeroEnergy
    \/ RaiseZeroRate
    \/ ComputeEnvelope
    \/ HangoverCopy
    \/ HangoverStep
    \/ ReturnNoEnvelope
    \/ BuildLadder
    \/ ScanAndReturn

Spec == Init /\ [][Next]_vars

-----------------------------------------------------------------------------
(* mix_at_snr as a state machine *)
N == Size(speech)

(* A caller invokes mix_at_snr(speech, noise, fs, snr_db, speech_info,
   use_active_speech); fs is not read by the function *)
MixCall ==
    /\ mpc = "idle"
    /\ speech' \in SpeechSignals
    /\ noise' \in NoiseSignals
    /\ snr_db' \in SnrValues
    /\ speech_info' \in SpeechInfos
    /\ use_active_speech' \in BOOLEAN
    /\ mpc' = "match"
    /\ UNCHANGED <<start, noise_m, mret, mexc>>
    /\ UNCHANGED first
    /\ UNCHANGED notmix

(* line 14 with len(noise) = 0: N / len(noise) *)
RaiseEmptyNoise ==
    /\ mpc = "match"
    /\ Size(noise) < N
    /\ Size(noise) = 0
    /\ mexc' = "ZeroDivisionError"
    /\ mpc' = "raised"
    /\ UNCHANGED <<speech, noise, snr_db, speech_info, use_active_speech,
                   start, noise_m, mret>>
    /\ UNCHANGED first
    /\ UNCHANGED notmix

(* lines 13-15: shorter noise is tiled and cut to N samples *)
TileNoise ==
    /\ mpc = "match"
    /\ Size(noise) < N
    /\ Size(noise) # 0
    /\ noise_m' = Slice(Tile(noise, Repeats(N, Size(noise))), 0, N)
    /\ mpc' = "power"
    /\ UNCHANGED <<speech, noise, snr_db, speech_info, use_active_speech,
                   start, mret, mexc>>
    /\ UNCHANGED first
    /\ UNCHANGED notmix

(* lines 16-18: longer noise gives a window at a random offset *)
WindowNoise ==
    /\ mpc = "match"
    /\ Size(noise) > N
    /\ \E s \in RandInt(0, Size(noise) - N) :
          /\ start' = s
          /\ noise_m' = Slice(noise, s, s + N)
    /\ mpc' = "power"
    /\ UNCHANGED <<speech, noise, snr_db, speech_info, use_active_speech,
                   mret, mexc>>
    /\ UNCHANGED first
    /\ UNCHANGED notmix

(* equal lengths: noise is used as it is *)
KeepNoise ==
    /\ mpc = "match"
    /\ Size(noise) = N
    /\ noise_m' = noise
    /\ mpc' = "power"
    /\ UNCHANGED <<speech, noise, snr_db, speech_info, use_active_speech,
                   start, mret, mexc>>
    /\ UNCHANGED first
    /\ UNCHANGED notmix

(* lines 27-29: zero-power noise *)
RaiseZeroPower ==
    /\ mpc = "power"
    /\ N > 0
    /\ Pn0(noise_m).num <= 0
    /\ mexc' = "ValueError: Noise signal has zero power"
    /\ mpc' = "raised"
    /\ UNCHANGED <<speech, noise, snr_db, speech_info, use_active_speech,
                   start, noise_m, mret>>
    /\ UNCHANGED first
    /\ UNCHANGED notmix

(* empty speech: the powers are nan, nan <= 0 is false, and np.max of the
   empty mixed array raises at line 40 *)
RaiseEmptyMax ==
    /\ mpc = "power"
    /\ N = 0
    /\ mexc' = "ValueError: zero-size array to reduction operation maximum"
    /\ mpc' = "raised"
    /\ UNCHANGED <<speech, noise, snr_db, speech_info, use_active_speech,
                   start, noise_m, mret>>
    /\ UNCHANGED first
    /\ UNCHANGED notmix

(* mutant: the sum is accumulated into the caller's array,
   mixed = speech; mixed += alpha * noise *)
MixInPlace ==
    /\ mpc = "power"
    /\ N > 0
    /\ Pn0(noise_m).num > 0
    /\ LET alpha == Alpha(Ps(speech, use_active_speech, speech_info),
                          Pn0(noise_m), Factor(snr_db))
       IN  /\ mret' = [mixed |-> Normalised(Mixed(speech, noise_m, alpha)),
                       alpha |-> alpha]
           /\ speech' = Mixed(speech, noise_m, alpha)
    /\ mpc' = "done"
    /\ UNCHANGED <<noise, snr_db, speech_info, use_active_speech,
                   start, noise_m, mexc>>
    /\ UNCHANGED first
    /\ UNCHANGED notmix

(* lines 20-44: gain, sum, peak normalisation, return *)
MixAndReturn ==
    /\ mpc = "power"
    /\ N > 0
    /\ Pn0(noise_m).num > 0
    /\ LET alpha == Alpha(Ps(speech, use_active_speech, speech_info),
                          Pn0(noise_m), Factor(snr_db))
       IN  mret' = [mixed |-> Normalised(Mixed(speech, noise_m, alpha)),
                    alpha |-> alpha]
    /\ mpc' = "done"
    /\ UNCHANGED <<speech, noise, snr_db, speech_info, use_active_speech,
                   start, noise_m, mexc>>
    /\ UNCHANGED first
    /\ UNCHANGED notmix

NextMix ==
    \/ MixCall
    \/ RaiseEmptyNoise
    \/ TileNoise
    \/ WindowNoise
    \/ KeepNoise
    \/ RaiseZeroPower
    \/ RaiseEmptyMax
    \/ MixAndReturn

SpecMix == Init /\ [][NextMix]_vars

(* The caller calls mix_at_snr once more with the arguments of the call that
   just returned; the locals of the new call are fresh *)
MixAgain ==
    /\ mpc = "done"
    /\ ~first.done
    /\ first' = [done |-> TRUE, ret |-> mret]
    /\ mpc' = "match"
    /\ start' = 0 /\ noise_m' = <<>> /\ mret' = NoMix /\ mexc' = "none"
    /\ UNCHANGED <<speech, noise, snr_db, speech_info, use_active_speech>>
    /\ UNCHANGED notmix

NextRepeat ==
    \/ MixCall
    \/ RaiseEmptyNoise
    \/ TileNoise
    \/ WindowNoise
    \/ KeepNoise
    \/ RaiseZeroPower
    \/ RaiseEmptyMax
    \/ MixAndReturn
    \/ MixAgain

SpecRepeat == Init /\ [][NextRepeat]_vars

-----------------------------------------------------------------------------
(* main of P56_mix.py as a state machine.  A .wav file is the pair of its
   sample rate and its samples as read_wav_mono returns them; a directory
   is the sequence of its files in the order os.listdir gives. *)
MaxFiles == 2
TARGET_SNRS == <<0, 5, 10, 15>>
Wav(rate, data) == [fs |-> rate, data |-> data]
SpeechWavs == {Wav(1, d) : d \in {sig \in SpeechSignals : Size(sig) <= 1}}
NoiseWavs == {Wav(r, d) : r \in {1, 2},
                          d \in {sig \in NoiseSignals :
                                    Size(sig) = 1 /\ sig[0] >= 0}}
Listings(wavs) == UNION {[1..n -> wavs] : n \in 0..MaxFiles}

(* active_speech_level(speech, fs_s) raises: the empty-signal check *)
AslFails(wav) == Size(wav.data) = 0
(* the noise of a job after lines 13-18, for noise no longer than speech *)
JobNoise(sp, nz) ==
    IF Size(nz) < Size(sp)
    THEN Slice(Tile(nz, Repeats(Size(sp), Size(nz))), 0, Size(sp))
    ELSE nz
(* mix_at_snr(speech, noise, ...) raises: the zero-power check *)
MixFails(sp, nz) == Pn0(JobNoise(sp.data, nz.data)).num <= 0

(* lines 56-59: main lists the two directories *)
MainCall ==
    /\ bpc = "idle"
    /\ dirs_found' \in BOOLEAN
    /\ speech_files' \in Listings(SpeechWavs)
    /\ noise_files' \in Listings(NoiseWavs)
    /\ bpc' = "listed"
    /\ UNCHANGED <<sidx, nidx, kidx, job_count, written, bexc>>
    /\ UNCHANGED notmain

(* lines 60-62: a directory is missing *)
ReturnNotFound ==
    /\ bpc = "listed"
    /\ ~dirs_found
    /\ bpc' = "returned"
    /\ UNCHANGED <<dirs_found, speech_files, noise_files, sidx, nidx, kidx,
                   job_count, written, bexc>>
    /\ UNCHANGED notmain

(* lines 64-66: no speech or no noise file *)
ReturnNoFiles ==
    /\ bpc = "listed"
    /\ dirs_found
    /\ speech_files = <<>> \/ noise_files = <<>>
    /\ bpc' = "returned"
    /\ UNCHANGED <<dirs_found, speech_files, noise_files, sidx, nidx, kidx,
                   job_count, written, bexc>>
    /\ UNCHANGED notmain

(* lines 68-73: the speech loop starts *)
StartLoops ==
    /\ bpc = "listed"
    /\ dirs_found
    /\ speech_files # <<>> /\ noise_files # <<>>
    /\ sidx' = 1
    /\ job_count' = 0
    /\ bpc' = "speech"
    /\ UNCHANGED <<dirs_found, speech_files, noise_files, nidx, kidx,
                   written, bexc>>
    /\ UNCHANGED notmain

(* lines 74-75: the estimator raises on the speech file; nothing catches *)
SpeechRaises ==
    /\ bpc = "speech"
    /\ sidx <= Len(speech_files)
    /\ AslFails(speech_files[sidx])
    /\ bexc' = "ValueError: Empty signal"
    /\ bpc' = "raised"
    /\ UNCHANGED <<dirs_found, speech_files, noise_files, sidx, nidx, kidx,
                   job_count, written>>
    /\ UNCHANGED notmain

(* lines 74-77: speech read and measured, the noise loop starts *)
SpeechRead ==
    /\ bpc = "speech"
    /\ sidx <= Len(speech_files)
    /\ ~AslFails(speech_files[sidx])
    /\ nidx' = 1
    /\ bpc' = "noise"
    /\ UNCHANGED <<dirs_found, speech_files, noise_files, sidx, kidx,
                   job_count, written, bexc>>
    /\ UNCHANGED notmain

(* line 100: every speech file done *)
MainDone ==
    /\ bpc = "speech"
    /\ sidx > Len(speech_files)
    /\ bpc' = "returned"
    /\ UNCHANGED <<dirs_found, speech_files, noise_files, sidx, nidx, kidx,
                   job_count, written, bexc>>
    /\ UNCHANGED notmain

(* lines 78-82: sample rates differ, the pair is skipped *)
SkipMismatch ==
    /\ bpc = "noise"
    /\ nidx <= Len(noise_files)
    /\ speech_files[sidx].fs # noise_files[nidx].fs
    /\ nidx' = nidx + 1
    /\ UNCHANGED <<bpc, dirs_found, speech_files, noise_files, sidx, kidx,
                   job_count, written, bexc>>
    /\ UNCHANGED notmain

(* lines 78-84: noise read, the SNR loop starts *)
NoiseRead ==
    /\ bpc = "noise"
    /\ nidx <= Len(noise_files)
    /\ speech_files[sidx].fs = noise_files[nidx].fs
    /\ kidx' = 1
    /\ bpc' = "snr"
    /\ UNCHANGED <<dirs_found, speech_files, noise_files, sidx, nidx,
                   job_count, written, bexc>>
    /\ UNCHANGED notmain

(* the noise loop ends, the next speech file is taken *)
NoiseLoopEnd ==
    /\ bpc = "noise"
    /\ nidx > Len(noise_files)
    /\ sidx' = sidx + 1
    /\ bpc' = "speech"
    /\ UNCHANGED <<dirs_found, speech_files, noise_files, nidx, kidx,
                   job_count, written, bexc>>
    /\ UNCHANGED notmain

(* lines 85-88: mix_at_snr raises; nothing catches, main ends *)
JobRaises ==
    /\ bpc = "snr"
    /\ kidx <= Len(TARGET_SNRS)
    /\ MixFails(speech_files[sidx], noise_files[nidx])
    /\ job_count' = job_count + 1
    /\ bexc' = "ValueError: Noise signal has zero power"
    /\ bpc' = "raised"
    /\ UNCHANGED <<dirs_found, speech_files, noise_files, sidx, nidx, kidx,
                   written>>
    /\ UNCHANGED notmain

(* lines 85-98: the job is mixed and its file written *)
JobWrites ==
    /\ bpc = "snr"
    /\ kidx <= Len(TARGET_SNRS)
    /\ ~MixFails(speech_files[sidx], noise_files[nidx])
    /\ job_count' = job_count + 1
    /\ written' = written \cup {<<sidx, nidx, TARGET_SNRS[kidx]>>}
    /\ kidx' = kidx + 1
    /\ UNCHANGED <<bpc, dirs_found, speech_files, noise_files, sidx, nidx,
                   bexc>>
    /\ UNCHANGED notmain

(* the SNR loop ends, the next noise file is taken *)
SnrLoopEnd ==
    /\ bpc = "snr"
    /\ kidx > Len(TARGET_SNRS)
    /\ nidx' = nidx + 1
    /\ bpc' = "noise"
    /\ UNCHANGED <<dirs_found, speech_files, noise_files, sidx, kidx,
                   job_count, written, bexc>>
    /\ UNCHANGED notmain

NextMain ==
    \/ MainCall
    \/ ReturnNotFound
    \/ ReturnNoFiles
    \/ StartLoops
    \/ SpeechRaises
    \/ SpeechRead
    \/ MainDone
    \/ SkipMismatch
    \/ NoiseRead
    \/ NoiseLoopEnd
    \/ JobRaises
    \/ JobWrites
    \/ SnrLoopEnd

SpecMain == Init /\ [][NextMain]_vars

-----------------------------------------------------------------------------
(* bin_interp (src/kod/P56_github.py, lines 120-165).  Its arguments, the
   tolerance and the midpoint are levels in dB, kept as integers in units of
   1/BinUnit dB: the halvings of the first 20 iterations are exact for
   arguments that are whole dB. *)
(* iterations followed per call: a call of the model returns by iteration
   59, so the bound is not met *)
MaxIter == 64
BinUnit == 1048576
(* 15.9 dB, the margin asl_P56 passes *)
Margin159 == 16672358
UpCounts == {-22 * BinUnit, -19 * BinUnit, -14 * BinUnit}
LwCounts == {-20 * BinUnit, -14 * BinUnit}
UpThrs == {-34 * BinUnit, -30 * BinUnit}
LwThrs == {-40 * BinUnit, -36 * BinUnit}
BinMargins == {0, Margin159}
Tols == {BinUnit \div 2, -(BinUnit \div 2), 2 * BinUnit}

(* (u + v) / 2.0 *)
Half(u, v) == (u + v) \div 2
(* the tolerance kept as it is *)
RelaxNever(t, it) == t
(* if iterno > 20: tol = tol * 1.1 *)
Relax(t, it) == IF it > 20 THEN (t * 11) \div 10 ELSE t
(* diff = midcount - midthr - Margin *)
Diff == midcount - midthr - Margin

(* lines 120-125: the call, tol = -tol for a negative tol, iterno = 1 *)
BinCall ==
    /\ ipc = "idle"
    /\ upcount' \in UpCounts /\ lwcount' \in LwCounts
    /\ upthr' \in UpThrs /\ lwthr' \in LwThrs
    /\ Margin' \in BinMargins
    /\ \E t \in Tols : tol' = IF t < 0 THEN -t ELSE t
    /\ iterno' = 1
    /\ ipc' = "check"
    /\ UNCHANGED <<midcount, midthr, iret>>
    /\ UNCHANGED notbin

(* lines 126-129: the upper end is within the tolerance *)
BinReturnUpper ==
    /\ ipc = "check"
    /\ Abs(upcount - upthr - Margin) < tol
    /\ iret' = [returned |-> TRUE, asl_ms_log |-> upcount, cc |-> upthr]
    /\ ipc' = "done"
    /\ UNCHANGED <<upcount, lwcount, upthr, lwthr, Margin, tol, iterno,
                   midcount, midthr>>
    /\ UNCHANGED notbin

(* lines 130-133: the lower end is within the tolerance *)
BinReturnLower ==
    /\ ipc = "check"
    /\ ~(Abs(upcount - upthr - Margin) < tol)
    /\ Abs(lwcount - lwthr - Margin) < tol
    /\ iret' = [returned |-> TRUE, asl_ms_log |-> lwcount, cc |-> lwthr]
    /\ ipc' = "done"
    /\ UNCHANGED <<upcount, lwcount, upthr, lwthr, Margin, tol, iterno,
                   midcount, midthr>>
    /\ UNCHANGED notbin

(* lines 136-137: the first midpoint *)
BinMidpoint ==
    /\ ipc = "check"
    /\ ~(Abs(upcount - upthr - Margin) < tol)
    /\ ~(Abs(lwcount - lwthr - Margin) < tol)
    /\ midcount' = Half(upcount, lwcount)
    /\ midthr' = Half(upthr, lwthr)
    /\ ipc' = "loop"
    /\ UNCHANGED <<upcount, lwcount, upthr, lwthr, Margin, tol, iterno, iret>>
    /\ UNCHANGED notbin

(* lines 141-143 and 163-165: the midpoint is within the tolerance *)
BinBreak ==
    /\ ipc = "loop"
    /\ Abs(Diff) <= tol
    /\ iret' = [returned |-> TRUE, asl_ms_log |-> midcount, cc |-> midthr]
    /\ ipc' = "done"
    /\ UNCHANGED <<upcount, lwcount, upthr, lwthr, Margin, tol, iterno,
                   midcount, midthr>>
    /\ UNCHANGED notbin

(* lines 141-159: one more iteration; the tolerance is relaxed first and the
   midpoint moves towards the upper or the lower end, or stays *)
BinRefine ==
    /\ ipc = "loop"
    /\ ~(Abs(Diff) <= tol)
    /\ iterno < MaxIter
    /\ iterno' = iterno + 1
    /\ tol' = Relax(tol, iterno')
    /\ IF Diff > tol'
       THEN /\ midcount' = Half(upcount, midcount)
            /\ midthr' = Half(upthr, midthr)
       ELSE IF Diff < -tol'
       THEN /\ midcount' = Half(midcount, lwcount)
            /\ midthr' = Half(midthr, lwthr)
       ELSE UNCHANGED <<midcount, midthr>>
    /\ UNCHANGED <<ipc, upcount, lwcount, upthr, lwthr, Margin, iret>>
    /\ UNCHANGED notbin

NextBin ==
    \/ BinCall
    \/ BinReturnUpper
    \/ BinReturnLower
    \/ BinMidpoint
    \/ BinBreak
    \/ BinRefine

(* a call that has started keeps running *)
SpecBin == Init /\ [][NextBin]_vars /\ WF_vars(NextBin)

-----------------------------------------------------------------------------
(* asl_P56 (src/kod/P56_github.py).  Samples are integers in units of
   1/Unit56 of full scale; the envelope and the thresholds are kept in units
   of 1/(Unit56 * EnvUnit56).  The smoothing factor g = exp(-1 / (fs * T)),
   T = 0.03, is kept over EnvUnit56: 3.3e-15 at fs = 1 and 0.0039 at fs = 6
   round to 0 and 4.  No sample lies on a threshold, where the envelope of
   the code, (1 - g)^2 times the sample, falls just below it.  The levels
   AdB, CdB and Delta are in units of 1/BinUnit dB. *)
MaxLen56 == 4
Unit56 == 16
EnvUnit56 == 1024
Samples56 == {0, 3, 12, 64}
Signals56 == UNION {[0..(n-1) -> Samples56] : n \in 1..MaxLen56}
Rates56 == {1, 6}
Bits56 == {3, 5}

(* the thresholds in falling order *)
Thresholds56Falling(nb) ==
    [j \in 0..(nb - 2) |-> (2^(nb - 2 - j) * Unit56 * EnvUnit56) \div 2^(nb - 1)]
(* c = 2.0 ** np.arange(-num_thresholds, 0), num_thresholds = nbits - 1 *)
Thresholds56(nb) ==
    [j \in 0..(nb - 2) |-> (2^j * Unit56 * EnvUnit56) \div 2^(nb - 1)]
(* I = np.ceil(fs * H), H = 0.2 *)
HangoverLen56(rate) == CeilDiv(rate * 2, 10)
(* g = np.exp(-1 / (fs * T)), over EnvUnit56 *)
G56(rate) == CASE rate = 1 -> 0
               [] rate = 6 -> 4
(* lfilter([1 - g], [1, -g], u): y[n] = (1 - g) * u[n] + g * y[n-1] *)
RECURSIVE Lfilter(_, _, _)
Lfilter(g, u, n) ==
    IF n < 0 THEN 0
    ELSE ((EnvUnit56 - g) * u[n] + g * Lfilter(g, u, n - 1)) \div EnvUnit56
(* lines 58-62: p, then q *)
Envelope56(sig, g) ==
    LET x_abs == [n \in DOMAIN sig |-> Abs(sig[n]) * EnvUnit56]
        p == [n \in DOMAIN sig |-> Lfilter(g, x_abs, n)]
    IN  [n \in DOMAIN sig |-> Lfilter(g, p, n)]

(* lines 67-75: the loop over the thresholds for one sample, from index j;
   the counters afterwards *)
RECURSIVE CountFrom(_, _, _, _, _, _)
CountFrom(j, cnt, hg, qk, thr, win) ==
    IF j >= Size(thr) THEN [a |-> cnt, hang |-> hg]
    ELSE IF qk >= thr[j]
    THEN CountFrom(j + 1, [cnt EXCEPT ![j] = @ + 1], [hg EXCEPT ![j] = 0],
                   qk, thr, win)
    ELSE IF hg[j] < win
    THEN CountFrom(j + 1, [cnt EXCEPT ![j] = @ + 1], [hg EXCEPT ![j] = @ + 1],
                   qk, thr, win)
    ELSE [a |-> cnt, hang |-> hg]

(* lines 32-48: thresholds, hangover length, counters *)
P56Call ==
    /\ pc56 = "idle"
    /\ x56' \in Signals56
    /\ fs56' \in Rates56
    /\ \E nb \in Bits56 :
          /\ nbits' = nb
          /\ c56' = Thresholds56(nb)
          /\ a56' = [j \in 0..(nb - 2) |-> 0]
          /\ hang56' = [j \in 0..(nb - 2) |-> HangoverLen56(fs56')]
    /\ I56' = HangoverLen56(fs56')
    /\ pc56' = "energy"
    /\ UNCHANGED <<q56, k56, ret56>>
    /\ UNCHANGED notp56

(* lines 51-53: zero mean-square energy *)
P56ZeroEnergy ==
    /\ pc56 = "energy"
    /\ SumSq(x56, Size(x56)) = 0
    /\ ret56' = [returned |-> TRUE, asl_ms |-> NegInf, asl |-> Zero, c0 |-> Zero]
    /\ pc56' = "done"
    /\ UNCHANGED <<x56, fs56, nbits, c56, I56, a56, hang56, q56, k56>>
    /\ UNCHANGED notp56

(* lines 55-62: the envelope *)
P56Envelope ==
    /\ pc56 = "energy"
    /\ SumSq(x56, Size(x56)) # 0
    /\ q56' = Envelope56(x56, G56(fs56))
    /\ k56' = 0
    /\ pc56' = "count"
    /\ UNCHANGED <<x56, fs56, nbits, c56, I56, a56, hang56, ret56>>
    /\ UNCHANGED notp56

(* lines 66-75: one sample of the counting loop *)
P56CountStep ==
    /\ pc56 = "count"
    /\ k56 < Size(x56)
    /\ LET r == CountFrom(0, a56, hang56, q56[k56], c56, I56)
       IN  a56' = r.a /\ hang56' = r.hang
    /\ k56' = k56 + 1
    /\ pc56' = IF k56 + 1 = Size(x56) THEN "counted" ELSE "count"
    /\ UNCHANGED <<x56, fs56, nbits, c56, I56, q56, ret56>>
    /\ UNCHANGED notp56

(* lines 78-80: no activity at the lowest threshold *)
P56NoActivity ==
    /\ pc56 = "counted"
    /\ a56[0] = 0
    /\ ret56' = [returned |-> TRUE, asl_ms |-> NegInf, asl |-> Zero, c0 |-> Zero]
    /\ pc56' = "done"
    /\ UNCHANGED <<x56, fs56, nbits, c56, I56, a56, hang56, q56, k56>>
    /\ UNCHANGED notp56

(* 10 * np.log10(n) for a whole n, in units of 1/BinUnit dB:
   10 * log10(2) * BinUnit / LnUnit = 3082.5 *)
Db10(n) == (Lg(n) * 30825) \div 10
(* 10 ** (v / per) of a level v in units of 1/BinUnit dB *)
Pow10(v, per) == [kind |-> "pow10", v |-> v, per |-> per]
(* line 55: total_power = np.sum(x**2), as a level *)
TotalPowerdB == Db10(SumSq(x56, Size(x56))) - Db10(Unit56 * Unit56)
(* line 51: mean_square_energy = np.mean(x**2), as a level *)
MeanSquaredB == TotalPowerdB - Db10(Size(x56))
(* line 84: AdB = 10 * np.log10(total_power / (a + 1e-10)); for a count of
   zero the divisor is 1e-10, 100 dB below one *)
AdB56(j) ==
    TotalPowerdB - (IF a56[j] > 0 THEN Db10(a56[j]) ELSE -100 * BinUnit)
(* line 85: CdB = 20 * np.log10(c + 1e-10), c[j] = 2 ** (j - num_thresholds) *)
CdB56(j) == 2 * Db10(2) * (j - (nbits - 1))
(* line 86: Delta = AdB - CdB *)
Delta56(j) == AdB56(j) - CdB56(j)

(* lines 98-113: the first index from j on with Delta within the margin, 0
   when the loop ends without one (at a count of zero or after the last
   threshold) *)
RECURSIVE CrossFrom(_)
CrossFrom(j) ==
    IF j >= nbits - 1 THEN 0
    ELSE IF a56[j] = 0 THEN 0
    ELSE IF Delta56(j) <= Margin159 THEN j
    ELSE CrossFrom(j + 1)

(* lines 84-91: Delta at the lowest threshold is below the margin *)
P56BelowMargin ==
    /\ pc56 = "counted"
    /\ a56[0] # 0
    /\ Delta56(0) < Margin159
    /\ ret56' = [returned |-> TRUE, asl_ms |-> NegInf, asl |-> Zero, c0 |-> Zero]
    /\ pc56' = "done"
    /\ UNCHANGED <<x56, fs56, nbits, c56, I56, a56, hang56, q56, k56>>
    /\ UNCHANGED notp56

(* lines 93-115: no threshold crosses the margin, the zeros of lines 93-95
   are returned *)
P56NoCrossing ==
    /\ pc56 = "counted"
    /\ a56[0] # 0
    /\ ~(Delta56(0) < Margin159)
    /\ CrossFrom(1) = 0
    /\ ret56' = [returned |-> TRUE, asl_ms |-> Zero, asl |-> Zero, c0 |-> Zero]
    /\ pc56' = "done"
    /\ UNCHANGED <<x56, fs56, nbits, c56, I56, a56, hang56, q56, k56>>
    /\ UNCHANGED notp56

(* lines 98-104 and 120-125: the first crossing j, and the call
   bin_interp(AdB[j], AdB[j-1], CdB[j], CdB[j-1], M, 0.5) *)
P56Interpolate ==
    /\ pc56 = "counted"
    /\ a56[0] # 0
    /\ ~(Delta56(0) < Margin159)
    /\ CrossFrom(1) # 0
    /\ ipc = "idle"
    /\ LET j == CrossFrom(1)
       IN  /\ upcount' = AdB56(j) /\ lwcount' = AdB56(j - 1)
           /\ upthr' = CdB56(j) /\ lwthr' = CdB56(j - 1)
    /\ Margin' = Margin159
    /\ tol' = BinUnit \div 2
    /\ iterno' = 1
    /\ ipc' = "check"
    /\ pc56' = "interp"
    /\ UNCHANGED <<midcount, midthr, iret>>
    /\ UNCHANGED <<x56, fs56, nbits, c56, I56, a56, hang56, q56, k56, ret56>>
    /\ UNCHANGED <<aslvars, mixvars, mainvars>>

(* lines 104-115: asl_ms = 10 ** (asl_ms_log / 10),
   asl = mean_square_energy / asl_ms, c0 = 10 ** (c10 / 20) *)
P56Return ==
    /\ pc56 = "interp"
    /\ ipc = "done"
    /\ ret56' = [returned |-> TRUE,
                 asl_ms |-> Pow10(iret.asl_ms_log, 10),
                 asl |-> Pow10(MeanSquaredB - iret.asl_ms_log, 10),
                 c0 |-> Pow10(iret.cc, 20)]
    /\ pc56' = "done"
    /\ UNCHANGED <<x56, fs56, nbits, c56, I56, a56, hang56, q56, k56>>
    /\ UNCHANGED notp56

(* one call of asl_P56; the steps of bin_interp are those of the call made
   at line 104 *)
NextP56 ==
    \/ P56Call
    \/ P56ZeroEnergy
    \/ P56Envelope
    \/ P56CountStep
    \/ P56NoActivity
    \/ P56BelowMargin
    \/ P56NoCrossing
    \/ P56Interpolate
    \/ BinReturnUpper
    \/ BinReturnLower
    \/ BinMidpoint
    \/ BinBreak
    \/ BinRefine
    \/ P56Return

SpecP56 == Init /\ [][NextP56]_vars

-----------------------------------------------------------------------------
(* Properties of active_speech_level *)
Returned == pc = "done"
Raised == pc = "raised"
Smoothed == pc \in {"ladder", "scan"} \/ (Returned /\ i = Ns /\ Ns > 0)
Laddered == pc = "scan" \/ (Returned /\ scan.stop # "none")
Scanned == Returned /\ scan.stop # "none"
Levels == 0..(Nlevels - 1)

(* naive reference: maximum of q over the trailing window of length win *)
Window(k, win) == Max2(0, k - win + 1)..k
WindowMax(env, k, win) == MaxOf({env[n] : n \in Window(k, win)})

(* C1: with I >= 1, every assigned entry of q_tilde equals the maximum of
   the envelope over the trailing window max(0, i-I+1) .. i *)
C1_SlidingMaximum ==
    (pc \in {"hangover", "ladder", "scan", "done"} /\ I >= 1) =>
        \A k \in DOMAIN q_tilde : q_tilde[k] = WindowMax(q, k, I)
(* a finished pass in which an old maximum left the window and the held
   maximum differs from the envelope *)
C1_Witness ==
    /\ pc = "ladder" /\ I >= 2 /\ Ns >= 4
    /\ \E k \in DOMAIN q_tilde : q_tilde[k] > q[k]
    /\ \E k \in DOMAIN q_tilde : \E n \in 0..k : q[n] > q_tilde[k]

(* C2: the scan visits the indices in increasing order and stops at the first
   index with positive activity whose Delta is within the margin; at an
   interpolated crossing j > 0, Delta[j] <= Mln < Delta[j-1], and every
   earlier index had positive activity and Delta above the margin *)
C2_ScanOrder ==
    Scanned =>
        /\ scan.seen = 0..(scan.j - 1)
        /\ \A k \in scan.seen : aj[k] > 0 /\ DACOf(k) > Mln(M_dB)
        /\ scan.found => (aj[scan.j] > 0 /\ DACOf(scan.j) <= Mln(M_dB))
        /\ (scan.found /\ scan.j > 0) =>
              /\ scan.d = DACOf(scan.j) /\ scan.d <= Mln(M_dB)
              /\ scan.d_prev = DACOf(scan.j - 1) /\ scan.d_prev > Mln(M_dB)
              /\ scan.Aln_prev = AlnjOf(scan.j - 1)
C2_Witness ==
    /\ Scanned /\ scan.found /\ scan.j > 1 /\ scan.j < Nlevels - 1
    /\ scan.d < Mln(M_dB)

(* C3: when a[0] > 0 and Delta[0] <= Mln the level comes from A_ln[0]
   without interpolation, lo is the lowest threshold c_0, the activity is the
   sampled a_0, and the result is a success with a finite level *)
C3_FirstThreshold ==
    (Scanned /\ aj[0] > 0 /\ DACOf(0) <= Mln(M_dB)) =>
        /\ scan.found /\ scan.j = 0
        /\ scan.Alno = AlnjOf(0)
        /\ ret.info.ActLev_sample_units = LnVal(AlnjOf(0) \div 2)
        /\ ret.info.lo = [kind |-> "thr", c |-> cj[0]]
        /\ cj[0] = Thr(qmax, Nlevels - 1)
        /\ ret.activity = Frac(aj[0], Ns)
        /\ ret.act_level_db.finite
        /\ "reason" \notin DOMAIN ret.info
C3_Witness ==
    /\ Scanned /\ aj[0] > 0 /\ DACOf(0) <= Mln(M_dB)
    /\ aj[0] < Ns /\ aj[Nlevels - 1] < aj[0]

(* C4: a scan that ends without an index within the margin, at the last
   threshold or at the first threshold of activity 0, returns (-inf, 0)
   tagged 'no_crossing', a tag of no other outcome; a successful result
   carries no reason tag *)
FirstZero == IF \E j \in Levels : aj[j] = 0
             THEN CHOOSE j \in Levels : aj[j] = 0 /\ \A k \in 0..(j-1) : aj[k] # 0
             ELSE Nlevels
NoIndexCrosses == \A j \in 0..(FirstZero - 1) : DACOf(j) > Mln(M_dB)
C4_NoCrossing ==
    LET noIndex == NoIndexCrosses IN
    /\ (Scanned /\ noIndex) =>
          /\ ~ret.act_level_db.finite
          /\ ret.activity = Zero
          /\ "reason" \in DOMAIN ret.info
          /\ ret.info.reason = "no_crossing"
          /\ ret.info.reason \notin {ZeroEnergy.info.reason,
                                     NoEnvelopeEnergy.info.reason}
    /\ (Returned /\ ret.act_level_db.finite) =>
          /\ "reason" \notin DOMAIN ret.info
          /\ Scanned /\ ~noIndex
    /\ (Scanned /\ ~scan.found) =>
          /\ noIndex
          /\ scan.stop = (IF FirstZero < Nlevels THEN "zero" ELSE "end")
          /\ scan.j = FirstZero
          /\ ret.info.reason = "no_crossing"
C4_Witness ==
    /\ Scanned /\ NoIndexCrosses /\ Ns >= 2
    /\ scan.stop = "zero" /\ FirstZero = Nlevels - 1 /\ aj[Nlevels - 2] > 0
    /\ M_dB = 159

(* C5: a non-empty signal with zero mean-square energy, or with a smoothed
   envelope peak <= 0, returns (-inf, 0) with a reason tag and never raises *)
Degenerate(r) ==
    /\ ~r.act_level_db.finite
    /\ r.activity = Zero
    /\ "reason" \in DOMAIN r.info
C5_Degenerate ==
    /\ (Ns > 0 /\ Ex(x).num = 0 /\ pc \notin {"idle", "check"}) =>
          /\ Returned /\ Degenerate(ret) /\ ret.info.reason = "zero-energy"
    /\ (Smoothed /\ qmax <= 0 /\ pc # "ladder") =>
          /\ Returned /\ Degenerate(ret)
          /\ ret.info.reason = "no-envelope-energy"
    /\ Raised => ~(Ns > 0 /\ Ex(x).num = 0)
C5_Witness == Returned /\ Ex(x).num # 0 /\ Smoothed /\ qmax <= 0 /\ I >= 1

(* C6: an empty signal raises ValueError('Empty signal') whatever the other
   arguments are, before anything else is computed, and returns no tuple *)
C6_EmptySignal ==
    (Ns = 0 /\ pc \notin {"idle", "check"}) =>
        /\ Raised
        /\ exc = "ValueError: Empty signal"
        /\ ret = NoRet
        /\ q = <<>> /\ q_tilde = <<>> /\ scan = NoScan
C6_Witness == Raised /\ Ns = 0 /\ fs = 0 /\ M_dB = 2000 /\ b = 5

(* C7: the activity profile is non-increasing in the threshold index and
   every fraction a[j] = aj[j] / Ns lies in [0, 1] *)
C7_ActivityMonotone ==
    Laddered =>
        /\ \A j \in 0..(Nlevels - 2) : aj[j] >= aj[j+1]
        /\ \A j \in Levels : 0 <= aj[j] /\ aj[j] <= Ns
C7_Witness ==
    /\ Laddered
    /\ \E j \in 0..(Nlevels - 2) : aj[j] > aj[j+1] /\ aj[j+1] > 0
    /\ aj[0] = Ns

(* value order and ratio of two thresholds m / b^e *)
ThrLess(c, d) ==
    LET lowest == IF c.e <= d.e THEN c.e ELSE d.e
    IN  c.m * b^(d.e - lowest) < d.m * b^(c.e - lowest)
ThrRatioB(c, d) ==
    LET lowest == IF c.e <= d.e THEN c.e ELSE d.e
    IN  d.m * b^(c.e - lowest) = b * c.m * b^(d.e - lowest)

(* C8: for b = 2 the ladder has exactly Nlevels entries, is strictly
   increasing with ratio b, starts at c_max / b^(Nlevels-1) and ends at c_max *)
C8_Ladder ==
    (Laddered /\ b = 2) =>
        /\ qmax > 0
        /\ DOMAIN cj = Levels /\ Cardinality(DOMAIN cj) = Nlevels
        /\ \A j \in 0..(Nlevels - 2) :
              ThrLess(cj[j], cj[j+1]) /\ ThrRatioB(cj[j], cj[j+1])
        /\ cj[0] = Thr(qmax, Nlevels - 1)
        /\ cj[Nlevels - 1] = Thr(qmax, 0)
C8_Witness == Laddered /\ b = 2 /\ qmax > 1 /\ qmax < EnvScale(Ns)

(* C19: after every processed sample i (I >= 1) the deque is non-empty, its
   last entry is (q[i], i), its values strictly decrease and its indices
   strictly increase from front to back, every stored index lies in the
   window max(0, i-I+1) .. i and holds the envelope value of that index, and
   the front entry read into q_tilde is such an in-window value *)
Processed == pc \in {"hangover", "ladder", "scan", "done"} /\ I >= 1 /\ i >= 1
C19_DequeInvariant ==
    Processed =>
        LET cur == i - 1
        IN  /\ dq # <<>>
            /\ Last(dq) = <<q[cur], cur>>
            /\ \A n \in 1..(Len(dq) - 1) :
                  dq[n][1] > dq[n+1][1] /\ dq[n][2] < dq[n+1][2]
            /\ \A n \in 1..Len(dq) :
                  /\ dq[n][2] \in Window(cur, I)
                  /\ dq[n][1] = q[dq[n][2]]
            /\ q_tilde[cur] = Head(dq)[1]
(* a deque of several entries whose front sits on the edge of the window
   after older samples have left it *)
C19_Witness ==
    /\ pc = "hangover" /\ I >= 2 /\ i >= 3
    /\ Len(dq) >= 2 /\ Head(dq)[2] = i - I

(* C20: over a run on N samples every index is appended to the deque
   exactly once, in order, and removed (from the back or the front) at most
   once; the removals so far plus the entries still stored are the samples
   processed, so the removals never exceed N whatever the window length *)
C20_LinearWork ==
    (pc \in {"hangover", "ladder", "scan", "done"} /\ I >= 1) =>
        /\ appended = [n \in 1..i |-> n - 1]
        /\ \A m, n \in 1..Len(removed) :
              m # n => removed[m][1] # removed[n][1]
        /\ \A n \in 1..Len(removed) : removed[n][1] \in 0..(i - 1)
        /\ Len(removed) + Len(dq) = i
        /\ Len(removed) <= Ns
(* a finished pass with removals from both ends, all but the last sample *)
C20_Witness ==
    /\ pc = "ladder" /\ I >= 2 /\ Ns >= 4
    /\ \E n \in 1..Len(removed) : removed[n][2] = "pop"
    /\ \E n \in 1..Len(removed) : removed[n][2] = "popleft"
    /\ Len(removed) = Ns - 1

(* C18: a call with sample rate 0 and a non-empty signal, an all-zero one
   included, fails with an error and returns no result tuple *)
C18_ZeroRateFails ==
    (fs = 0 /\ Ns > 0 /\ pc \notin {"idle", "check"}) =>
        (Raised /\ ret = NoRet)
(* a call with sample rate 0 that returned a tuple *)
C18_Witness ==
    /\ Returned /\ fs = 0 /\ Ns >= 2
    /\ ret = ZeroEnergy

(* the scan ended in the interpolation branch of lines 132-147 *)
Interpolated == pc = "done" /\ scan.found /\ scan.j > 0
(* ln(a_frac[j]) *)
LnAFrac(j) == Lg(aj[j]) - Lg(Ns)

(* an activity kept as LnRounded against the logarithm w of a bound *)
AtLeast(act, w) == act.v > w \/ (act.v = w /\ act.ulp >= 0)
AtMost(act, w) == act.v < w \/ (act.v = w /\ act.ulp <= 0)

(* C23: whenever the scan interpolates at j > 0 the denominator
   dAC[j] - dAC[j-1] is strictly negative, the weight alpha lies in (0, 1],
   the interpolated Alno lies between Alnj[j-1] and Alnj[j], the returned
   activity lies between a_frac[j] and a_frac[j-1] and so within (0, 1];
   every successful result has activity in (0, 1] *)
C23_InsideBracket ==
    /\ Interpolated =>
          LET num == Mln(M_dB) - scan.d_prev
              den == scan.d - scan.d_prev
          IN  /\ den < 0
              /\ num < 0 /\ num >= den
              /\ scan.Aln_prev <= scan.Alno
              /\ scan.Alno <= AlnjOf(scan.j)
              /\ AtLeast(ret.activity, LnAFrac(scan.j))
              /\ AtMost(ret.activity, LnAFrac(scan.j - 1))
              /\ AtMost(ret.activity, 0)
    /\ (pc = "done" /\ scan.found /\ scan.j = 0) =>
          /\ 0 < ret.activity.num
          /\ ret.activity.num <= ret.activity.den
(* what holds of the interpolation: the bracket of dAC, the weight and Alno
   are as claimed, and the activity recomputed from exp(Alno / 2) and
   sqrt(m) is in the bracket of a_frac up to the rounding of the last place *)
InsideBracketRounded ==
    Interpolated =>
        LET num == Mln(M_dB) - scan.d_prev
            den == scan.d - scan.d_prev
        IN  /\ den < 0
            /\ num < 0 /\ num >= den
            /\ scan.Aln_prev <= scan.Alno
            /\ scan.Alno <= AlnjOf(scan.j)
            /\ LnAFrac(scan.j) <= ret.activity.v
            /\ ret.activity.v <= LnAFrac(scan.j - 1)
            /\ ret.activity.ulp \in Roundings
(* an interpolation with the default margin between two thresholds that
   every sample reaches, whose recomputed activity is rounded above
   a_frac = 1 *)
C23_Witness ==
    /\ Interpolated /\ M_dB = 159 /\ b = 2
    /\ aj[scan.j] = Ns /\ aj[scan.j - 1] = Ns
    /\ ret.activity.v = 0 /\ ret.activity.ulp = 1

-----------------------------------------------------------------------------
(* Properties of mix_at_snr *)
Matched == mpc \in {"power", "done"} \/ (mpc = "raised" /\ mexc # "ZeroDivisionError")
L == Size(noise)

(* C9: for N >= 1 and L >= 1 the length-matched noise has exactly N samples:
   the tiling noise[i mod L] if L < N, a window noise[start + i] with
   0 <= start <= L - N if L > N, and noise itself if L = N *)
C9_LengthMatch ==
    (Matched /\ N >= 1 /\ L >= 1) =>
        /\ DOMAIN noise_m = 0..(N - 1)
        /\ L < N => \A k \in 0..(N - 1) : noise_m[k] = noise[k % L]
        /\ L > N => /\ 0 <= start /\ start <= L - N
                    /\ \A k \in 0..(N - 1) :
                          start + k \in DOMAIN noise /\ noise_m[k] = noise[start + k]
        /\ L = N => noise_m = noise
(* a tiling that repeats the noise a fractional number of times *)
C9_Witness ==
    /\ Matched /\ L = 2 /\ N = 3 /\ noise[0] # noise[1]

(* C10: with Ps > 0 and Pn0 > 0 the returned gain solves
   alpha^2 * Pn0 * 10^(snr_db/10) = Ps to the resolution 1/AlphaUnit of the
   arithmetic: alpha^2 <= Ps / (Pn0 * factor) < (alpha + 1/AlphaUnit)^2 *)
C10_GainMeetsSnr ==
    LET ps == Ps(speech, use_active_speech, speech_info)
        pn == Pn0(noise_m)
        f == Factor(snr_db)
        lhs == pn.num * f.num * ps.den
        rhs == ps.num * pn.den * f.den * AlphaUnit * AlphaUnit
        a == mret.alpha
    IN  (mpc = "done" /\ ps.num > 0 /\ pn.num > 0) =>
            /\ a * a * lhs <= rhs
            /\ rhs < (a + 1) * (a + 1) * lhs
(* a call with a non-trivial gain at a non-zero target SNR *)
C10_Witness ==
    /\ mpc = "done" /\ snr_db = 10 /\ mret.alpha > 0
    /\ mret.alpha # AlphaUnit
    /\ Ps(speech, use_active_speech, speech_info) # Pn0(noise_m)

(* C11: Ps is the square of the linear active level when use_active_speech
   is true and the diagnostics carry 'ActLev_sample_units'; otherwise (flag
   false, no diagnostics, diagnostics with only a reason tag) it is
   mean(speech^2), and the call does not fail for the missing level: the
   returned gain is the square root of that Ps / (Pn0 * factor), and a call
   with non-empty speech and noise of positive power returns *)
LevelGiven ==
    /\ use_active_speech
    /\ speech_info # None
    /\ "ActLev_sample_units" \in DOMAIN speech_info.dict
C11_SpeechPower ==
    LET lev == speech_info.dict.ActLev_sample_units
        ps == IF LevelGiven THEN Frac(lev * lev, 1)
                            ELSE Frac(SumSq(speech, N), N)
        pn == Frac(SumSq(noise_m, N), N)
        f == Factor(snr_db)
        lhs == pn.num * f.num * ps.den
        rhs == ps.num * pn.den * f.den * AlphaUnit * AlphaUnit
        a == mret.alpha
    IN  /\ mpc = "done" => /\ a * a * lhs <= rhs
                           /\ rhs < (a + 1) * (a + 1) * lhs
        /\ mpc = "raised" => (N = 0 \/ L = 0 \/ SumSq(noise_m, N) = 0)
(* the fallback taken with diagnostics of a degenerate result, for speech
   whose mean square differs from the squared levels on offer *)
C11_Witness ==
    /\ mpc = "done" /\ use_active_speech /\ speech_info # None
    /\ "reason" \in DOMAIN speech_info.dict
    /\ N = 3 /\ SumSq(speech, N) = 2 /\ mret.alpha > 0

(* C12: the call fails with ValueError('Noise signal has zero power')
   exactly when the length-matched noise has mean power <= 0 (all of its
   samples are zero); then nothing is returned and no gain is computed, and
   with positive power the error is not raised *)
ZeroPower == "ValueError: Noise signal has zero power"
Silent(nm) == \A k \in DOMAIN nm : nm[k] = 0
C12_ZeroPowerNoise ==
    (mpc \in {"done", "raised"}) =>
        /\ mexc = ZeroPower <=> (N > 0 /\ L > 0 /\ Silent(noise_m))
        /\ mexc = ZeroPower => (mpc = "raised" /\ mret = NoMix)
        /\ (N > 0 /\ L > 0 /\ ~Silent(noise_m)) =>
              (mpc = "done" /\ mexc = "none")
(* a window of silence cut from noise that is not silent as a whole *)
C12_Witness ==
    /\ mpc = "raised" /\ mexc = ZeroPower
    /\ L > N /\ ~Silent(noise)

(* C13: every returned mixed signal has peak <= 1.0; with the peak of
   speech + alpha * noise <= 1.0 the output is that sum sample for sample,
   otherwise it is the sum divided by its peak (to the resolution
   1/AlphaUnit) and the output peak is exactly 1; the returned alpha is the
   gain used in the sum, whether or not the rescale ran *)
C13_PeakNormalised ==
    mpc = "done" =>
        LET a == mret.alpha
            sum == [k \in 0..(N - 1) |-> speech[k] * AlphaUnit + a * noise_m[k]]
            peak == MaxOf({Abs(sum[k]) : k \in 0..(N - 1)})
            out == mret.mixed
        IN  /\ DOMAIN out = 0..(N - 1)
            /\ \A k \in 0..(N - 1) : Abs(out[k]) <= AlphaUnit
            /\ peak <= AlphaUnit => out = sum
            /\ peak > AlphaUnit =>
                  /\ \A k \in 0..(N - 1) :
                        Abs(out[k] * peak - sum[k] * AlphaUnit) < peak
                  /\ \E k \in 0..(N - 1) : Abs(out[k]) = AlphaUnit
(* a rescaled mix with a sample strictly inside the range *)
C13_Witness ==
    /\ mpc = "done"
    /\ MaxAbs(Mixed(speech, noise_m, mret.alpha)) > AlphaUnit
    /\ \E k \in DOMAIN mret.mixed :
          mret.mixed[k] # 0 /\ Abs(mret.mixed[k]) < AlphaUnit

(* C14: two calls of mix_at_snr with identical arguments return identical
   mixed signals and identical gains; the window offset comes from
   random.randint, the process-wide generator, so they need not *)
C14_Reproducible ==
    (mpc = "done" /\ first.done) => mret = first.ret
(* two calls that both returned after cutting a window from longer noise *)
C14_Witness ==
    /\ mpc = "done" /\ first.done /\ L > N /\ N >= 1

(* C17: from the call on, no step of mix_at_snr (length matching by tiling
   or windowing, a raise, the sum, the clipping rescale) changes the
   caller's speech, noise or speech diagnostics *)
C17_InputsKept ==
    [][mpc # "idle" => /\ speech' = speech
                       /\ noise' = noise
                       /\ speech_info' = speech_info]_vars
(* a returned call that tiled the noise and rescaled the mix *)
C17_Witness ==
    /\ mpc = "done" /\ L < N /\ speech_info # None
    /\ MaxAbs(Mixed(speech, noise_m, mret.alpha)) > AlphaUnit
    /\ mret.mixed # Mixed(speech, noise_m, mret.alpha)

-----------------------------------------------------------------------------
(* Properties of main *)
Jobs == {<<s, n, k>> : s \in DOMAIN speech_files, n \in DOMAIN noise_files,
                       k \in DOMAIN TARGET_SNRS}
Fails(job) == \/ AslFails(speech_files[job[1]])
              \/ MixFails(speech_files[job[1]], noise_files[job[2]])
SameRate(job) == speech_files[job[1]].fs = noise_files[job[2]].fs
Output(job) == <<job[1], job[2], TARGET_SNRS[job[3]]>>
MainEnded == bpc \in {"returned", "raised"}

(* C15: when main has ended, no failing job has an output file and every
   job that does not fail (and whose sample rates match) has been processed:
   its output file is written; a failing job does not end the run *)
C15_BatchRobust ==
    (MainEnded /\ dirs_found) =>
        \A job \in Jobs :
            /\ Fails(job) => Output(job) \notin written
            /\ (SameRate(job) /\ ~Fails(job)) => Output(job) \in written
(* a run that ended on a failing job with some outputs written *)
C15_Witness ==
    /\ bpc = "raised" /\ written # {}
    /\ \E job \in Jobs : SameRate(job) /\ ~Fails(job) /\ Output(job) \notin written

-----------------------------------------------------------------------------
(* Properties of asl_P56 *)
(* q_tilde of active_speech_level for an envelope env and a window win:
   lines 66-81 of P56_method_1.py *)
RECURSIVE DequeAfter(_, _, _)
DequeAfter(env, n, win) ==
    IF n < 0 THEN <<>>
    ELSE DequeStep(DequeAfter(env, n - 1, win), env[n], n, win)
QTilde(env, win) ==
    IF win < 1 THEN env
    ELSE [n \in DOMAIN env |-> Head(DequeAfter(env, n, win))[1]]
Counted == pc56 \in {"counted", "interp"} \/ (pc56 = "done" /\ k56 = Size(x56))

(* C16: for the same envelope q, the same threshold c and the same hangover
   length I, the activity count of asl_P56 equals the number of samples
   whose trailing-I sliding-window maximum (q_tilde of active_speech_level)
   is >= c *)
C16_CountsAgree ==
    Counted =>
        \A j \in DOMAIN c56 :
            a56[j] = Cardinality({n \in DOMAIN q56 :
                                    QTilde(q56, I56)[n] >= c56[j]})
(* what asl_P56 counts: the samples with the envelope at or above c within
   the trailing I + 1 samples *)
CountsWindowPlusOne ==
    Counted =>
        \A j \in DOMAIN c56 :
            a56[j] = Cardinality({n \in DOMAIN q56 :
                                    QTilde(q56, I56 + 1)[n] >= c56[j]})
(* a finished count with a sample held active by the hangover counter *)
C16_Witness ==
    /\ Counted /\ I56 = 2
    /\ \E j \in DOMAIN c56 :
          a56[j] > Cardinality({n \in DOMAIN q56 : q56[n] >= c56[j]})

(* lines 66-75 without the 'break': every threshold is visited for every
   sample; the counters after the first n samples *)
NoBreakStep(r, qk, thr, win) ==
    [a |-> [j \in DOMAIN thr |->
              IF qk >= thr[j] \/ r.hang[j] < win THEN r.a[j] + 1 ELSE r.a[j]],
     hang |-> [j \in DOMAIN thr |->
              IF qk >= thr[j] THEN 0
              ELSE IF r.hang[j] < win THEN r.hang[j] + 1 ELSE r.hang[j]]]
RECURSIVE NoBreakAfter(_)
NoBreakAfter(n) ==
    IF n = 0 THEN [a |-> [j \in DOMAIN c56 |-> 0],
                   hang |-> [j \in DOMAIN c56 |-> I56]]
    ELSE NoBreakStep(NoBreakAfter(n - 1), q56[n - 1], c56, I56)
Counting == pc56 \in {"count", "counted", "interp"} \/ (pc56 = "done" /\ q56 # <<>>)

(* C22: after every processed sample the hangover counters are ordered,
   hang[j] <= hang[j+1], and lie in 0 .. I, the activity counters are ordered,
   a[j] >= a[j+1], and the counters equal those of the same loop run without
   the 'break' *)
C22_HangoverInvariant ==
    Counting =>
        /\ \A j \in DOMAIN c56 : 0 <= hang56[j] /\ hang56[j] <= I56
        /\ \A j \in DOMAIN c56 : (j + 1) \in DOMAIN c56 =>
              /\ hang56[j] <= hang56[j+1]
              /\ a56[j] >= a56[j+1]
        /\ a56 = NoBreakAfter(k56).a
        /\ hang56 = NoBreakAfter(k56).hang
(* a finished count with a sample that the break left unvisited at
   threshold 1, another counted at threshold 1 and unvisited at threshold 2,
   counters ordered strictly *)
C22_Witness ==
    /\ pc56 = "counted" /\ nbits = 5
    /\ a56[1] < k56
    /\ a56[1] > a56[2] /\ a56[2] > 0
    /\ hang56[1] < hang56[2]

-----------------------------------------------------------------------------
(* Properties of bin_interp *)
(* the two ends lie on opposite sides of the margin *)
Brackets ==
    /\ upcount - upthr - Margin < 0
    /\ lwcount - lwthr - Margin > 0

(* C21: every call of bin_interp returns, also when the midpoint passes the
   margin back and forth and only the tolerance relaxed after 20 iterations
   ends the loop, and the returned pair has
   |asl_ms_log - cc - Margin| <= the tolerance in force at the return *)
C21_Terminates ==
    (ipc = "check") ~>
        (/\ ipc = "done" /\ iret.returned
         /\ Abs(iret.asl_ms_log - iret.cc - Margin) <= tol)
(* a returned call on a bracket whose midpoint was still outside the
   tolerance after 20 iterations, on either side of the margin in turn, and
   was accepted under a relaxed tolerance *)
C21_Witness ==
    /\ ipc = "done" /\ Brackets
    /\ iterno > 20
    /\ tol > BinUnit \div 2 /\ tol < BinUnit
    /\ Abs(iret.asl_ms_log - iret.cc - Margin) > BinUnit \div 2

====
